---- MODULE Spec2Model ----
(***************************************************************************)
(* Model of the fuzzy matching core: NumericAwareScorer (scorer.py) and    *)
(* FuzzyMatcher (matcher.py).                                              *)
(*                                                                         *)
(* Texts are sequences of one-character strings.  Real numbers (float) are *)
(* exact: amounts and extracted numbers are fixed-point integers counting  *)
(* units of 1/Scale, scores are normalised fractions [n, d].               *)
(***************************************************************************)
EXTENDS Integers, Sequences, FiniteSets, TLC

(***************************************************************************)
(* Bounds of the model.                                                    *)
(***************************************************************************)
\* rows of a source table passed to match_datasets
MaxSource == 2
\* rows of a reference table passed to match_datasets
MaxRef == 2
\* fractional digits of a numeric literal (fixed-point resolution)
MaxDecimals == 2
\* characters of a text handed to the Scorer directly
MaxTextLen == 4

(***************************************************************************)
(* Arithmetic helpers.                                                     *)
(***************************************************************************)
Abs(x) == IF x < 0 THEN -x ELSE x

RECURSIVE Pow10(_)
Pow10(k) == IF k = 0 THEN 1 ELSE 10 * Pow10(k - 1)

Scale == Pow10(MaxDecimals)

RECURSIVE GCD(_, _)
GCD(a, b) == IF b = 0 THEN a ELSE GCD(b, a % b)

\* the fraction n/d (d # 0) in lowest terms with a positive denominator
Reduce(n, d, g) == [n |-> n \div g, d |-> d \div g]
Rat(n, d) == IF d < 0 THEN Reduce(-n, -d, GCD(Abs(n), Abs(d)))
             ELSE Reduce(n, d, GCD(Abs(n), Abs(d)))

RInt(k) == [n |-> k, d |-> 1]
RAdd(a, b) == Rat(a.n * b.d + b.n * a.d, a.d * b.d)
RLt(a, b) == a.n * b.d < b.n * a.d
RLe(a, b) == a.n * b.d <= b.n * a.d
RMin(a, b) == IF RLt(b, a) THEN b ELSE a
RMax(a, b) == IF RLt(a, b) THEN b ELSE a

\* Python round(x, 2), as a count of hundredths (ties go to the even one)
RoundHalfEven(q, r2, d) ==
    IF r2 > d \/ (r2 = d /\ q % 2 = 1) THEN q + 1 ELSE q
round2(x) == RoundHalfEven((x.n * 100) \div x.d, 2 * ((x.n * 100) % x.d), x.d)

(***************************************************************************)
(* Characters.                                                             *)
(***************************************************************************)
\* the characters of the model, in code-point order
Chars == <<" ", "-", ".", "0", "1", "2", "3", "4", "5", "6", "7", "8", "9",
           "a", "b", "c", "d">>
Ord(c) == CHOOSE i \in 1..Len(Chars) : Chars[i] = c
Digits == {"0", "1", "2", "3", "4", "5", "6", "7", "8", "9"}
IsDigit(c) == c \in Digits
DigitVal(c) == Ord(c) - Ord("0")
IsSpace(c) == c = " "

(***************************************************************************)
(* NumericAwareScorer.extract_numbers: re.findall(r'-?\d+\.?\d*', text),   *)
(* each match converted with float().                                      *)
(***************************************************************************)
\* first position >= i of s that holds no digit (Len(s) + 1 if none): \d*
RECURSIVE DigitRunEnd(_, _)
DigitRunEnd(s, i) ==
    IF i <= Len(s) /\ IsDigit(s[i]) THEN DigitRunEnd(s, i + 1) ELSE i

\* \.?\d* from position k, where the run of digits ended
AfterDigits(s, k) ==
    DigitRunEnd(s, IF k <= Len(s) /\ s[k] = "." THEN k + 1 ELSE k)

\* \d+\.?\d* from position j: the position after the match, 0 if none
MatchFrom(s, j) ==
    IF j > Len(s) \/ ~IsDigit(s[j]) THEN 0
    ELSE AfterDigits(s, DigitRunEnd(s, j))

\* mutant: the pattern anchored at a word boundary, no match after a letter
MatchEnd_wordBoundary(s, i) ==
    IF i > 1 /\ Ord(s[i - 1]) > Ord("9") THEN 0
    ELSE MatchFrom(s, IF s[i] = "-" THEN i + 1 ELSE i)

\* mutant: the minus is a sign only where no digit precedes it
MatchEnd_signAfterBoundary(s, i) ==
    IF s[i] = "-" /\ i > 1 /\ IsDigit(s[i - 1]) THEN 0
    ELSE MatchFrom(s, IF s[i] = "-" THEN i + 1 ELSE i)

\* the position after the match of the pattern that starts at i, 0 if the
\* pattern does not match at i
MatchEnd(s, i) == MatchFrom(s, IF s[i] = "-" THEN i + 1 ELSE i)

\* re.findall: the non-overlapping matches, scanning from position i
RECURSIVE findall(_, _)
FindStep(s, i, e) ==
    IF e = 0 THEN findall(s, i + 1)
    ELSE <<SubSeq(s, i, e - 1)>> \o findall(s, e)
findall(s, i) == IF i > Len(s) THEN <<>> ELSE FindStep(s, i, MatchEnd(s, i))

\* value of a run of digits read as an integer
RECURSIVE IntVal(_)
IntVal(ds) ==
    IF ds = <<>> THEN 0
    ELSE 10 * IntVal(SubSeq(ds, 1, Len(ds) - 1)) + DigitVal(ds[Len(ds)])

\* value of the digits after the point, in units of 1/Scale
FracVal(fp) == (IntVal(fp) * Scale) \div Pow10(Len(fp))

\* value of an unsigned literal whose integer digits end before position k
Magnitude(body, k) ==
    IntVal(SubSeq(body, 1, k - 1)) * Scale
    + FracVal(IF k <= Len(body) THEN SubSeq(body, k + 1, Len(body)) ELSE <<>>)

Unsigned(body) == Magnitude(body, DigitRunEnd(body, 1))

\* float(m) of a literal the pattern matched, in units of 1/Scale
to_float(m) == IF m[1] = "-" THEN -Unsigned(Tail(m)) ELSE Unsigned(m)

\* characters of a literal up to and including its point (all, if none)
AfterPoint(m) ==
    IF \E i \in 1..Len(m) : m[i] = "."
    THEN CHOOSE i \in 1..Len(m) : m[i] = "."
    ELSE Len(m)

\* [float(m) for m in matches if m and m != '-']
FloatAll(matches) == [i \in 1..Len(matches) |-> to_float(matches[i])]

extract_numbers(text) == FloatAll(findall(text, 1))

(***************************************************************************)
(* Configuration fixed at construction, and the Matcher's state.           *)
(***************************************************************************)
VARIABLES
    threshold,                \* FuzzyMatcher.threshold
    amount_tolerance_percent, \* NumericAwareScorer.amount_tolerance_percent
    exact_match_bonus,        \* NumericAwareScorer.exact_match_bonus
    audit_records,            \* FuzzyMatcher.audit_records
    pc,                       \* "new": no match_datasets call yet,
                              \* "loop": inside the loop of match_datasets,
                              \* "done": the last match_datasets call returned
    source_df,                \* argument of the current or last call
    reference_df,             \* argument of the current or last call
    idx,                      \* source rows the loop has processed
    results,                  \* the local list, returned as the result table
    match_result,             \* the local of the loop: <<>> or <<MatchResult>>
    stale_rows,               \* len(audit_records) on entry to the call
    audit_log,                \* <<>>, or <<the table get_audit_log returned>>
    score_calls,              \* the calculate_final_score calls of the current
                              \* or last call: <<source row, reference row>>
    sc_desc,                  \* Scorer called directly: the source text,
    sc_text,                  \*   the reference text (or the only text),
    sc_amount,                \*   the source amount,
    sc_out,                   \*   <<>> or <<the returned value>>
    ld_raw,                   \* ExcelDataLoader: <<>> or <<the table read>>
    ld_out,                   \*   <<>> or <<the table returned>>
    other                     \* a second match_datasets call that runs
                              \* concurrently: its locals, whether it runs
                              \* on this Matcher, and else its own Matcher's
                              \* audit_records

vars == <<threshold, amount_tolerance_percent, exact_match_bonus,
          audit_records, pc, source_df, reference_df, idx, results,
          match_result, stale_rows, audit_log, score_calls, sc_desc, sc_text, sc_amount,
          sc_out, ld_raw, ld_out, other>>

config == <<threshold, amount_tolerance_percent, exact_match_bonus>>
matcherVars == <<audit_records, pc, source_df, reference_df, idx, results,
                 match_result, stale_rows, audit_log, score_calls>>
scorerVars == <<sc_desc, sc_text, sc_amount, sc_out>>
loaderVars == <<ld_raw, ld_out>>

(***************************************************************************)
(* NumericAwareScorer.check_numeric_consistency.                           *)
(***************************************************************************)
\* tolerance = abs(source_amount * amount_tolerance_percent / 100), times 100
Tolerance100(source_amount) == Abs(source_amount * amount_tolerance_percent)

\* mutant: the tolerance band taken as open (diff < tolerance)
WithinTolerance_strict(diff, source_amount) ==
    100 * diff < Tolerance100(source_amount)

\* diff <= tolerance
WithinTolerance(diff, source_amount) ==
    diff <= Tolerance100(source_amount) \div 100

\* mutant: the partial bonus grows with the difference
Partial_inverted(diff, t) ==
    IF t > 0 THEN Rat(exact_match_bonus * 100 * diff, t) ELSE RInt(0)

\* exact_match_bonus * (1 - diff / tolerance) if tolerance > 0 else 0
Partial(diff, t) ==
    IF t > 0 THEN Rat(exact_match_bonus * (t - 100 * diff), t) ELSE RInt(0)
PartialBonus(diff, source_amount) == Partial(diff, Tolerance100(source_amount))

\* the for loop over ref_numbers, from position i
RECURSIVE NumericScan(_, _, _)
\* mutant: the scan gives up after the first number it rejects
NumericStep_firstOnly(source_amount, ref_numbers, i, diff) ==
    IF diff = 0
    THEN [is_consistent |-> TRUE,
          numeric_score |-> RInt(exact_match_bonus),
          explanation |-> [note |-> "Exact numeric match",
                           args |-> <<source_amount>>]]
    ELSE IF WithinTolerance(diff, source_amount)
    THEN [is_consistent |-> TRUE,
          numeric_score |-> PartialBonus(diff, source_amount),
          explanation |-> [note |-> "Numeric match within tolerance",
                           args |-> <<amount_tolerance_percent>>]]
    ELSE [is_consistent |-> FALSE, numeric_score |-> RInt(-50),
          explanation |-> [note |-> "Numeric mismatch",
                           args |-> <<source_amount>> \o ref_numbers]]

\* mutant: no separate test for an exact match
NumericStep_noExact(source_amount, ref_numbers, i, diff) ==
    IF WithinTolerance(diff, source_amount)
    THEN [is_consistent |-> TRUE,
          numeric_score |-> PartialBonus(diff, source_amount),
          explanation |-> [note |-> "Numeric match within tolerance",
                           args |-> <<amount_tolerance_percent>>]]
    ELSE NumericScan(source_amount, ref_numbers, i + 1)

NumericStep(source_amount, ref_numbers, i, diff) ==
    IF diff = 0
    THEN [is_consistent |-> TRUE,
          numeric_score |-> RInt(exact_match_bonus),
          explanation |-> [note |-> "Exact numeric match",
                           args |-> <<source_amount>>]]
    ELSE IF WithinTolerance(diff, source_amount)
    THEN [is_consistent |-> TRUE,
          numeric_score |-> PartialBonus(diff, source_amount),
          explanation |-> [note |-> "Numeric match within tolerance",
                           args |-> <<amount_tolerance_percent>>]]
    ELSE NumericScan(source_amount, ref_numbers, i + 1)

\* mutant: a mismatch costs 30 points
NumericScan_penalty30(source_amount, ref_numbers, i) ==
    IF i > Len(ref_numbers)
    THEN [is_consistent |-> FALSE, numeric_score |-> RInt(-30),
          explanation |-> [note |-> "Numeric mismatch",
                           args |-> <<source_amount>> \o ref_numbers]]
    ELSE NumericStep(source_amount, ref_numbers, i,
                     Abs(source_amount - ref_numbers[i]))

NumericScan(source_amount, ref_numbers, i) ==
    IF i > Len(ref_numbers)
    THEN [is_consistent |-> FALSE, numeric_score |-> RInt(-50),
          explanation |-> [note |-> "Numeric mismatch",
                           args |-> <<source_amount>> \o ref_numbers]]
    ELSE NumericStep(source_amount, ref_numbers, i,
                     Abs(source_amount - ref_numbers[i]))

\* mutant: a reference text without numbers is penalised as a mismatch
Consistency_penalised(source_amount, ref_numbers) ==
    NumericScan(source_amount, ref_numbers, 1)

RECURSIVE Reversed(_)
Reversed(q) == IF q = <<>> THEN <<>> ELSE Append(Reversed(Tail(q)), Head(q))

\* mutant: the numbers are scanned from the right, the last match wins
Consistency_lastWins(source_amount, ref_numbers) ==
    IF ref_numbers = <<>>
    THEN [is_consistent |-> TRUE, numeric_score |-> RInt(0),
          explanation |-> [note |-> "No numbers in reference description",
                           args |-> <<>>]]
    ELSE NumericScan(source_amount, Reversed(ref_numbers), 1)

\* the body of check_numeric_consistency once the numbers are extracted
Consistency(source_amount, ref_numbers) ==
    IF ref_numbers = <<>>
    THEN [is_consistent |-> TRUE, numeric_score |-> RInt(0),
          explanation |-> [note |-> "No numbers in reference description",
                           args |-> <<>>]]
    ELSE NumericScan(source_amount, ref_numbers, 1)

check_numeric_consistency(source_amount, ref_description) ==
    Consistency(source_amount, extract_numbers(ref_description))

(***************************************************************************)
(* NumericAwareScorer.calculate_text_similarity: fuzz.token_sort_ratio.    *)
(***************************************************************************)
\* str.split(): the maximal runs of non-whitespace characters
RECURSIVE SplitFrom(_, _, _)
SplitFrom(s, i, cur) ==
    IF i > Len(s)
    THEN IF cur = <<>> THEN <<>> ELSE <<cur>>
    ELSE IF IsSpace(s[i])
    THEN (IF cur = <<>> THEN <<>> ELSE <<cur>>) \o SplitFrom(s, i + 1, <<>>)
    ELSE SplitFrom(s, i + 1, Append(cur, s[i]))

split(s) == SplitFrom(s, 1, <<>>)

\* a < b in the lexicographic order of code points
RECURSIVE StrLess(_, _)
StrLess(a, b) ==
    IF b = <<>> THEN FALSE
    ELSE IF a = <<>> THEN TRUE
    ELSE IF a[1] # b[1] THEN Ord(a[1]) < Ord(b[1])
    ELSE StrLess(Tail(a), Tail(b))

RECURSIVE InsertSorted(_, _)
InsertSorted(tok, toks) ==
    IF toks = <<>> THEN <<tok>>
    ELSE IF StrLess(toks[1], tok)
    THEN <<toks[1]>> \o InsertSorted(tok, Tail(toks))
    ELSE <<tok>> \o toks

RECURSIVE sorted(_)
sorted(toks) ==
    IF toks = <<>> THEN <<>> ELSE InsertSorted(toks[1], sorted(Tail(toks)))

RECURSIVE join(_)
join(toks) ==
    IF toks = <<>> THEN <<>>
    ELSE IF Len(toks) = 1 THEN toks[1]
    ELSE toks[1] \o <<" ">> \o join(Tail(toks))

\* length of a longest common subsequence
RECURSIVE LCS(_, _)
Larger(x, y) == IF x >= y THEN x ELSE y
LCS(a, b) ==
    IF a = <<>> \/ b = <<>> THEN 0
    ELSE IF a[Len(a)] = b[Len(b)]
    THEN LCS(SubSeq(a, 1, Len(a) - 1), SubSeq(b, 1, Len(b) - 1)) + 1
    ELSE Larger(LCS(SubSeq(a, 1, Len(a) - 1), b),
                LCS(a, SubSeq(b, 1, Len(b) - 1)))

\* fuzz.ratio: the normalised Indel similarity, scaled to 0..100
ratio(a, b) ==
    IF Len(a) + Len(b) = 0 THEN RInt(100)
    ELSE Rat(200 * LCS(a, b), Len(a) + Len(b))

token_sort_ratio(s1, s2) == ratio(join(sorted(split(s1))), join(sorted(split(s2))))

\* mutant: the plain ratio, the tokens left in their order
calculate_text_similarity_plain(source_desc, ref_desc) ==
    ratio(source_desc, ref_desc)

calculate_text_similarity(source_desc, ref_desc) ==
    token_sort_ratio(source_desc, ref_desc)

(***************************************************************************)
(* NumericAwareScorer.calculate_final_score.                               *)
(***************************************************************************)
\* mutant: the tier boundaries taken as open
match_type_of_open(final_score) ==
    IF RLt(RInt(90), final_score) THEN "High Confidence"
    ELSE IF RLt(RInt(70), final_score) THEN "Medium Confidence"
    ELSE IF RLt(RInt(50), final_score) THEN "Low Confidence"
    ELSE "Poor Match"

match_type_of(final_score) ==
    IF RLe(RInt(90), final_score) THEN "High Confidence"
    ELSE IF RLe(RInt(70), final_score) THEN "Medium Confidence"
    ELSE IF RLe(RInt(50), final_score) THEN "Low Confidence"
    ELSE "Poor Match"

\* mutant: the penalised sum is not floored at 0
blend_noFloor(text_score, nc) ==
    IF ~nc.is_consistent
    THEN RAdd(text_score, nc.numeric_score)
    ELSE RMin(RInt(100), RAdd(text_score, nc.numeric_score))

\* mutant: the rewarded sum is not capped at 100
blend_noCap(text_score, nc) ==
    IF ~nc.is_consistent
    THEN RMax(RInt(0), RAdd(text_score, nc.numeric_score))
    ELSE RAdd(text_score, nc.numeric_score)

\* max(0, text + numeric) if not consistent, else min(100, text + numeric)
blend(text_score, nc) ==
    IF ~nc.is_consistent
    THEN RMax(RInt(0), RAdd(text_score, nc.numeric_score))
    ELSE RMin(RInt(100), RAdd(text_score, nc.numeric_score))

\* the details dict
details_of(text_score, nc, final_score) ==
    [text_score |-> text_score,
     numeric_consistent |-> nc.is_consistent,
     numeric_score |-> nc.numeric_score,
     final_score |-> final_score,
     match_type |-> match_type_of(final_score),
     explanation |-> nc.explanation]

score_pair(text_score, nc) == details_of(text_score, nc, blend(text_score, nc))

calculate_final_score(source_desc, source_amount, ref_desc) ==
    score_pair(calculate_text_similarity(source_desc, ref_desc),
               check_numeric_consistency(source_amount, ref_desc))

(***************************************************************************)
(* FuzzyMatcher.find_best_match.                                           *)
(***************************************************************************)
\* mutant: the running best starts below every score
NoBest_minusOne ==
    [best_score |-> RInt(-1), found |-> FALSE,
     best_match |-> [Description |-> <<>>, Code |-> ""],
     best_details |-> <<>>]

\* best_score = 0, best_match = None, best_details = None
NoBest ==
    [best_score |-> RInt(0), found |-> FALSE,
     best_match |-> [Description |-> <<>>, Code |-> ""],
     best_details |-> <<>>]

\* mutant: a later row replaces the best on an equal score
BetterOrEqual(score, best_score) == RLe(best_score, score)

\* if score > best_score
Better(score, best_score) == RLt(best_score, score)

\* calculate_final_score of the source row against every reference row
ScoreAll(source_desc, source_amount, ref) ==
    [i \in 1..Len(ref) |->
        calculate_final_score(source_desc, source_amount, ref[i].Description)]

\* the for loop over reference_df.iterrows(), from row i; scored[i] is the
\* details the Scorer returns for row i
RECURSIVE BestScan(_, _, _, _)
\* mutant: best_details is set by the first candidate recorded and kept
BestScan_staleDetails(ref, scored, i, best) ==
    IF i > Len(ref)
    THEN best
    ELSE IF Better(scored[i].final_score, best.best_score)
    THEN BestScan(ref, scored, i + 1,
                  [best_score |-> scored[i].final_score, found |-> TRUE,
                   best_match |-> [Description |-> ref[i].Description,
                                   Code |-> ref[i].Code],
                   best_details |-> IF best.best_details = <<>>
                                    THEN <<scored[i]>>
                                    ELSE best.best_details])
    ELSE BestScan(ref, scored, i + 1, best)

BestScan(ref, scored, i, best) ==
    IF i > Len(ref)
    THEN best
    ELSE IF Better(scored[i].final_score, best.best_score)
    THEN BestScan(ref, scored, i + 1,
                  [best_score |-> scored[i].final_score, found |-> TRUE,
                   best_match |-> [Description |-> ref[i].Description,
                                   Code |-> ref[i].Code],
                   best_details |-> <<scored[i]>>])
    ELSE BestScan(ref, scored, i + 1, best)

\* the details returned when best_details is None
SyntheticDetails ==
    [text_score |-> RInt(0), numeric_consistent |-> FALSE,
     numeric_score |-> RInt(0), final_score |-> RInt(0),
     match_type |-> "No Match",
     explanation |-> [note |-> "No match found above threshold",
                      args |-> <<>>]]

\* mutant: whatever candidate was recorded is accepted
AcceptedAt_any(t, best) == best.found

\* if best_score >= self.threshold and best_match
\* the same test in a Matcher constructed with threshold t
AcceptedAt(t, best) == RLe(RInt(t), best.best_score) /\ best.found
Accepted(best) == AcceptedAt(threshold, best)

\* mutant: an unmatched row is reported with score 0
MatchResultAt_zeroUnmatched(t, best) ==
    IF AcceptedAt(t, best)
    THEN [matched |-> TRUE,
          code |-> best.best_match.Code,
          matched_description |-> best.best_match.Description,
          score |-> best.best_score,
          details |-> best.best_details[1]]
    ELSE [matched |-> FALSE,
          code |-> "NO_MATCH",
          matched_description |-> <<>>,
          score |-> RInt(0),
          details |-> IF best.best_details # <<>>
                      THEN best.best_details[1]
                      ELSE SyntheticDetails]

\* the return statement of find_best_match, in a Matcher constructed with
\* threshold t
MatchResultAt(t, best) ==
    IF AcceptedAt(t, best)
    THEN [matched |-> TRUE,
          code |-> best.best_match.Code,
          matched_description |-> best.best_match.Description,
          score |-> best.best_score,
          details |-> best.best_details[1]]
    ELSE [matched |-> FALSE,
          code |-> "NO_MATCH",
          matched_description |-> <<>>,
          score |-> best.best_score,
          details |-> IF best.best_details # <<>>
                      THEN best.best_details[1]
                      ELSE SyntheticDetails]

\* the return statement of find_best_match
MatchResultOf(best) == MatchResultAt(threshold, best)

\* find_best_match of a Matcher constructed with threshold t and this
\* Matcher's Scorer
find_best_match_at(t, source_desc, source_amount, ref) ==
    MatchResultAt(t, BestScan(ref, ScoreAll(source_desc, source_amount, ref),
                              1, NoBest))

find_best_match(source_desc, source_amount, ref) ==
    MatchResultOf(BestScan(ref, ScoreAll(source_desc, source_amount, ref),
                           1, NoBest))

\* the calculate_final_score calls the for loop of find_best_match makes for
\* source row k, from reference row i on
RECURSIVE ScanCalls(_, _, _, _)
\* mutant: the loop breaks once a reference row has scored 100
ScanNext_breakAtFull(source_row, k, ref, i) ==
    IF calculate_final_score(source_row.Description, source_row.Amount,
                             ref[i].Description).final_score = RInt(100)
    THEN <<>>
    ELSE ScanCalls(source_row, k, ref, i + 1)

\* the loop body has no break: the next iteration follows
ScanNext(source_row, k, ref, i) == ScanCalls(source_row, k, ref, i + 1)
ScanCalls(source_row, k, ref, i) ==
    IF i > Len(ref) THEN <<>>
    ELSE <<<<k, i>>>> \o ScanNext(source_row, k, ref, i)

(***************************************************************************)
(* FuzzyMatcher.match_datasets and get_audit_log.                          *)
(***************************************************************************)
\* the result record of one source row
result_record(source_row, mr) ==
    [Description |-> source_row.Description,
     Amount |-> source_row.Amount,
     Matched_Code |-> mr.code,
     Match_Score |-> round2(mr.score),
     Match_Type |-> mr.details.match_type]

\* mutant: the audit record leaves the code of an unmatched row blank
audit_record_blankCode(source_row, mr) ==
    [Source_Description |-> source_row.Description,
     Source_Amount |-> source_row.Amount,
     Matched_Description |-> mr.matched_description,
     Matched_Code |-> IF mr.matched THEN mr.code ELSE "",
     Text_Match_Score |-> round2(mr.details.text_score),
     Numeric_Match |-> mr.details.numeric_consistent,
     Final_Score |-> round2(mr.details.final_score),
     Match_Type |-> mr.details.match_type,
     Explanation |-> mr.details.explanation]

\* the audit record of one source row
audit_record(source_row, mr) ==
    [Source_Description |-> source_row.Description,
     Source_Amount |-> source_row.Amount,
     Matched_Description |-> mr.matched_description,
     Matched_Code |-> mr.code,
     Text_Match_Score |-> round2(mr.details.text_score),
     Numeric_Match |-> mr.details.numeric_consistent,
     Final_Score |-> round2(mr.details.final_score),
     Match_Type |-> mr.details.match_type,
     Explanation |-> mr.details.explanation]

\* mutant: the entry of match_datasets keeps the audit rows of earlier runs
MatchDatasetsCall_keepAudit(src, ref) ==
    /\ pc \in {"new", "done"}
    /\ pc' = "loop"
    /\ source_df' = src
    /\ reference_df' = ref
    /\ results' = <<>>
    /\ stale_rows' = Len(audit_records)
    /\ idx' = 0
    /\ match_result' = <<>>
    /\ audit_log' = <<>>
    /\ score_calls' = <<>>
    /\ UNCHANGED <<audit_records, config, scorerVars, loaderVars, other>>

\* entry of match_datasets: results = [], self.audit_records = []
MatchDatasetsCall(src, ref) ==
    /\ pc \in {"new", "done", "raised"}
    /\ pc' = "loop"
    /\ source_df' = src
    /\ reference_df' = ref
    /\ results' = <<>>
    /\ stale_rows' = Len(audit_records)
    /\ audit_records' = <<>>
    /\ idx' = 0
    /\ match_result' = <<>>
    /\ audit_log' = <<>>
    /\ score_calls' = <<>>
    /\ UNCHANGED <<config, scorerVars, loaderVars, other>>

\* mutant: only matched rows are written to the audit sequence
AppendRow_matchedOnly(source_row, mr) ==
    /\ match_result' = <<mr>>
    /\ results' = Append(results, result_record(source_row, mr))
    /\ audit_records' = IF mr.matched
                        THEN Append(audit_records, audit_record(source_row, mr))
                        ELSE audit_records

\* mutant: each new row is put in front of the rows before it
AppendRow_front(source_row, mr) ==
    /\ match_result' = <<mr>>
    /\ results' = <<result_record(source_row, mr)>> \o results
    /\ audit_records' = <<audit_record(source_row, mr)>> \o audit_records

\* the body of the loop once find_best_match has returned mr
AppendRow(source_row, mr) ==
    /\ match_result' = <<mr>>
    /\ results' = Append(results, result_record(source_row, mr))
    /\ audit_records' = Append(audit_records, audit_record(source_row, mr))

\* one iteration of the loop over source_df.iterrows()
\* mutant: best_score is kept from one source row to the next
CarriedBest ==
    [NoBest EXCEPT !.best_score = IF match_result = <<>> THEN RInt(0)
                                  ELSE match_result[1].score]
ProcessRow_carriedBest ==
    /\ pc = "loop"
    /\ idx < Len(source_df)
    /\ AppendRow(source_df[idx + 1],
                 MatchResultOf(BestScan(reference_df,
                                        ScoreAll(source_df[idx + 1].Description,
                                                 source_df[idx + 1].Amount,
                                                 reference_df),
                                        1, CarriedBest)))
    /\ score_calls' = score_calls \o ScanCalls(source_df[idx + 1], idx + 1,
                                                reference_df, 1)
    /\ idx' = idx + 1
    /\ UNCHANGED <<pc, source_df, reference_df, stale_rows, audit_log,
                   config, scorerVars, loaderVars, other>>

\* an Amount that is a text, not a number (a cell the loader's contract
\* should have coerced): a value outside the range of the amounts
TextAmount == -Pow10(9)

\* the first reference row from row j on whose description holds a number,
\* Len(ref) + 1 if there is none
RECURSIVE FirstNumbered(_, _)
FirstNumbered(ref, j) ==
    IF j > Len(ref) \/ extract_numbers(ref[j].Description) # <<>> THEN j
    ELSE FirstNumbered(ref, j + 1)

\* scoring the source row raises: source_amount * amount_tolerance_percent
\* is a TypeError, evaluated once a reference description holds a number
Raises(source_row, ref) ==
    source_row.Amount = TextAmount /\ FirstNumbered(ref, 1) <= Len(ref)

\* mutant: the exception is caught and the row recorded as unmatched
ProcessRowRaises_swallowed ==
    /\ pc = "loop"
    /\ idx < Len(source_df)
    /\ Raises(source_df[idx + 1], reference_df)
    /\ AppendRow(source_df[idx + 1], MatchResultOf(NoBest))
    /\ score_calls' = score_calls
           \o ScanCalls(source_df[idx + 1], idx + 1,
                        SubSeq(reference_df, 1, FirstNumbered(reference_df, 1)),
                        1)
    /\ idx' = idx + 1
    /\ UNCHANGED <<pc, source_df, reference_df, stale_rows, audit_log,
                   config, scorerVars, loaderVars, other>>

\* an iteration in which find_best_match raises: nothing catches the
\* exception, so match_datasets is left before either append and its
\* local results list is dropped with the frame
ProcessRowRaises ==
    /\ pc = "loop"
    /\ idx < Len(source_df)
    /\ Raises(source_df[idx + 1], reference_df)
    /\ pc' = "raised"
    /\ results' = <<>>
    /\ match_result' = <<>>
    /\ score_calls' = score_calls
           \o ScanCalls(source_df[idx + 1], idx + 1,
                        SubSeq(reference_df, 1, FirstNumbered(reference_df, 1)),
                        1)
    /\ UNCHANGED <<audit_records, source_df, reference_df, idx, stale_rows,
                   audit_log, config, scorerVars, loaderVars, other>>

\* one iteration of the loop of match_datasets
ProcessRow ==
    /\ pc = "loop"
    /\ idx < Len(source_df)
    /\ ~Raises(source_df[idx + 1], reference_df)
    /\ AppendRow(source_df[idx + 1],
                 find_best_match(source_df[idx + 1].Description,
                                 source_df[idx + 1].Amount, reference_df))
    /\ score_calls' = score_calls \o ScanCalls(source_df[idx + 1], idx + 1,
                                                reference_df, 1)
    /\ idx' = idx + 1
    /\ UNCHANGED <<pc, source_df, reference_df, stale_rows, audit_log,
                   config, scorerVars, loaderVars, other>>

\* the loop is exhausted: return pd.DataFrame(results)
MatchDatasetsReturn ==
    /\ pc = "loop"
    /\ idx = Len(source_df)
    /\ pc' = "done"
    /\ UNCHANGED <<audit_records, source_df, reference_df, idx, results,
                   match_result, stale_rows, audit_log, score_calls, config,
                   scorerVars, loaderVars, other>>

\* get_audit_log: return pd.DataFrame(self.audit_records)
GetAuditLog ==
    /\ pc \in {"new", "done", "raised"}
    /\ audit_log' = <<audit_records>>
    /\ UNCHANGED <<audit_records, pc, source_df, reference_df, idx, results,
                   match_result, stale_rows, score_calls, config, scorerVars,
                   loaderVars, other>>

(***************************************************************************)
(* A second match_datasets call, interleaved with the first one row by     *)
(* row.  It runs on the same Matcher (other.shared) and then writes the    *)
(* same audit_records, or on a Matcher of its own.                         *)
(***************************************************************************)
NoOther ==
    [shared |-> FALSE, pc |-> "new", source_df |-> <<>>,
     reference_df |-> <<>>, idx |-> 0, results |-> <<>>,
     audit_records |-> <<>>]

\* mutant: the Matchers of all calls write one audit list
Shared_always == TRUE

\* the second call runs on the Matcher of the first
Shared == other.shared

\* entry of match_datasets: results = [], self.audit_records = []
OtherCall(src, ref) ==
    /\ other.pc = "new"
    /\ other' = [other EXCEPT !.pc = "loop", !.source_df = src,
                              !.reference_df = ref, !.idx = 0,
                              !.results = <<>>, !.audit_records = <<>>]
    /\ audit_records' = IF Shared THEN <<>> ELSE audit_records
    /\ UNCHANGED <<pc, source_df, reference_df, idx, results, match_result,
                   stale_rows, audit_log, score_calls, config, scorerVars,
                   loaderVars>>

OtherRow == other.source_df[other.idx + 1]
OtherMatch ==
    find_best_match(OtherRow.Description, OtherRow.Amount, other.reference_df)

\* one iteration of the loop of the second call
OtherProcessRow ==
    /\ other.pc = "loop"
    /\ other.idx < Len(other.source_df)
    /\ other' = [other EXCEPT
                    !.idx = @ + 1,
                    !.results = Append(@, result_record(OtherRow, OtherMatch)),
                    !.audit_records =
                        IF Shared THEN @
                        ELSE Append(@, audit_record(OtherRow, OtherMatch))]
    /\ audit_records' =
           IF Shared
           THEN Append(audit_records, audit_record(OtherRow, OtherMatch))
           ELSE audit_records
    /\ UNCHANGED <<pc, source_df, reference_df, idx, results, match_result,
                   stale_rows, audit_log, score_calls, config, scorerVars,
                   loaderVars>>

\* the second call returns pd.DataFrame(results)
OtherReturn ==
    /\ other.pc = "loop"
    /\ other.idx = Len(other.source_df)
    /\ other' = [other EXCEPT !.pc = "done"]
    /\ UNCHANGED <<matcherVars, config, scorerVars, loaderVars>>

(***************************************************************************)
(* ExcelDataLoader: the cleaning of the table pd.read_excel returned.  A   *)
(* cell is NaN (an empty cell), a number or a text; the cells of the       *)
(* description and code columns are texts or NaN.                          *)
(***************************************************************************)
NaN == [kind |-> "nan", num |-> 0, text |-> <<>>]
NumberCell(n) == [kind |-> "number", num |-> n, text |-> <<>>]
TextCell(t) == [kind |-> "text", num |-> 0, text |-> t]

\* .fillna('').astype(str)
fillna_str(cell) == IF cell.kind = "text" THEN cell.text ELSE <<>>

\* .str.strip()
RECURSIVE lstrip(_)
lstrip(t) == IF t # <<>> /\ IsSpace(t[1]) THEN lstrip(Tail(t)) ELSE t
RECURSIVE rstrip(_)
rstrip(t) ==
    IF t # <<>> /\ IsSpace(t[Len(t)])
    THEN rstrip(SubSeq(t, 1, Len(t) - 1))
    ELSE t
strip(t) == rstrip(lstrip(t))

\* the text is a decimal literal that pd.to_numeric parses
ParsesAsNumber(t) == t # <<>> /\ MatchEnd(t, 1) = Len(t) + 1

\* pd.to_numeric(..., errors='coerce'): <<the number>>, or <<>> for NaN
to_numeric(cell) ==
    IF cell.kind = "number" THEN <<cell.num>>
    ELSE IF cell.kind = "text" /\ ParsesAsNumber(cell.text)
    THEN <<to_float(cell.text)>>
    ELSE <<>>

\* .fillna(0)
fillna_0(v) == IF v = <<>> THEN 0 ELSE v[1]

\* the "Clean data" lines of load_source_data, on one row
clean_source(row) ==
    [Description |-> strip(fillna_str(row.Description)),
     Amount |-> fillna_0(to_numeric(row.Amount))]

\* mutant: rows left without an amount are dropped with the empty ones
KeepSource_dropNoAmount(row) == row.Description # <<>> /\ row.Amount # 0

\* df['Description'] != ''
KeepSource(row) == row.Description # <<>>

CleanedSource(raw) == [i \in 1..Len(raw) |-> clean_source(raw[i])]
load_source_data(raw) == SelectSeq(CleanedSource(raw), KeepSource)

\* the "Clean data" lines of load_reference_data, on one row
clean_reference(row) ==
    [Description |-> strip(fillna_str(row.Description)),
     Code |-> strip(fillna_str(row.Code))]

\* (df['Description'] != '') & (df['Code'] != '')
KeepReference(row) == row.Description # <<>> /\ row.Code # <<>>

CleanedReference(raw) == [i \in 1..Len(raw) |-> clean_reference(raw[i])]
load_reference_data(raw) == SelectSeq(CleanedReference(raw), KeepReference)

LoadSourceData ==
    /\ ld_raw # <<>>
    /\ ld_raw[1].table = "source"
    /\ ld_out = <<>>
    /\ ld_out' = <<load_source_data(ld_raw[1].rows)>>
    /\ UNCHANGED <<config, matcherVars, other, scorerVars, ld_raw>>

LoadReferenceData ==
    /\ ld_raw # <<>>
    /\ ld_raw[1].table = "reference"
    /\ ld_out = <<>>
    /\ ld_out' = <<load_reference_data(ld_raw[1].rows)>>
    /\ UNCHANGED <<config, matcherVars, other, scorerVars, ld_raw>>

(***************************************************************************)
(* Inputs.                                                                 *)
(***************************************************************************)
\* all sequences over S of length at most n
RECURSIVE SeqsUpTo(_, _)
Extend(shorter, S) == shorter \cup {Append(t, x) : t \in shorter, x \in S}
SeqsUpTo(S, n) == IF n = 0 THEN {<<>>} ELSE Extend(SeqsUpTo(S, n - 1), S)

SourceRows ==
    { [Description |-> <<"a", "b", " ", "1", "5">>, Amount |-> 15 * Scale],
      [Description |-> <<"c", "d">>,                Amount |-> 0] }

ReferenceRows ==
    { [Description |-> <<"a", "b", " ", "1", "5">>, Code |-> "A1"],
      [Description |-> <<"1", "5", " ", "a", "b">>, Code |-> "A2"],
      [Description |-> <<"a", "b", " ", "1", "6">>, Code |-> "B"] }

SourceTables == SeqsUpTo(SourceRows, MaxSource)
ReferenceTables == SeqsUpTo(ReferenceRows, MaxRef)

\* the defaults of config/constants.py
FUZZY_THRESHOLD == 70
AMOUNT_TOLERANCE_PERCENT == 5
EXACT_MATCH_BONUS == 20

Thresholds == {0, FUZZY_THRESHOLD, 100}

\* the inputs of a direct call of the Scorer
ScorerChars == {"1", "2", ".", "-", " ", "a"}
\* every literal of the text has at most MaxDecimals fractional digits
FewDecimals(m) == Len(m) - AfterPoint(m) <= MaxDecimals
Representable(text) ==
    \A i \in 1..Len(findall(text, 1)) : FewDecimals(findall(text, 1)[i])
ScorerTexts == {t \in SeqsUpTo(ScorerChars, MaxTextLen) : Representable(t)}
ScorerAmounts == {0, Scale, 2 * Scale, -2 * Scale, (12 * Scale) \div 10}
TolerancePercents == {0, 50}
SharedReferences ==
    { << [Description |-> <<"a", "b", " ", "1", "5">>, Code |-> "A1"],
         [Description |-> <<"a", "b", " ", "1", "6">>, Code |-> "B"] >> }
RawTexts ==
    { NaN, TextCell(<<>>), TextCell(<<" ">>), TextCell(<<" ", "a", " ">>),
      TextCell(<<"a", " ", "b">>) }
RawAmounts ==
    { NaN, NumberCell(15 * Scale), TextCell(<<"1", ".", "5">>),
      TextCell(<<"a">>) }
RawSourceRows ==
    {[Description |-> x, Amount |-> y] : x \in RawTexts, y \in RawAmounts}
RawReferenceRows ==
    {[Description |-> x, Code |-> y] :
        x \in RawTexts \ {TextCell(<<>>)}, y \in RawTexts \ {TextCell(<<>>)}}
RawSourceTables == SeqsUpTo(RawSourceRows, MaxSource)
RawReferenceTables == SeqsUpTo(RawReferenceRows, MaxRef)
WordChars == {"a", "b", " "}
WordTexts == SeqsUpTo(WordChars, MaxTextLen)
FinalDescs == { <<"a">>, <<"a", "a">>, <<"a", " ", "2">>, <<"2", " ", "a">> }
FinalAmounts == {0, 2 * Scale, (12 * Scale) \div 10}
Bonuses == {EXACT_MATCH_BONUS, -10}

(***************************************************************************)
(* The Matcher: construction, then any sequence of calls.                  *)
(***************************************************************************)
MatcherInit ==
    /\ audit_records = <<>>
    /\ pc = "new"
    /\ source_df = <<>>
    /\ reference_df = <<>>
    /\ idx = 0
    /\ results = <<>>
    /\ match_result = <<>>
    /\ stale_rows = 0
    /\ audit_log = <<>>
    /\ score_calls = <<>>

\* no ExcelDataLoader call is modelled
LoaderIdle == ld_raw = <<>> /\ ld_out = <<>>

\* no second call is modelled
OtherIdle == other = NoOther

Init ==
    /\ threshold \in Thresholds
    /\ amount_tolerance_percent = AMOUNT_TOLERANCE_PERCENT
    /\ exact_match_bonus = EXACT_MATCH_BONUS
    /\ MatcherInit
    /\ LoaderIdle
    /\ OtherIdle
    /\ sc_desc = <<>>
    /\ sc_text = <<>>
    /\ sc_amount = 0
    /\ sc_out = <<>>

Next ==
    \/ \E src \in SourceTables, ref \in ReferenceTables : MatchDatasetsCall(src, ref)
    \/ ProcessRow
    \/ MatchDatasetsReturn
    \/ GetAuditLog

Spec == Init /\ [][Next]_vars

(***************************************************************************)
(* The Scorer called directly on one input.                                *)
(***************************************************************************)
CheckNumericConsistency ==
    /\ sc_out = <<>>
    /\ sc_out' = <<[op |-> "check_numeric_consistency",
                    val |-> check_numeric_consistency(sc_amount, sc_text)]>>
    /\ UNCHANGED <<config, matcherVars, other, loaderVars, sc_desc, sc_text, sc_amount>>

ExtractNumbers ==
    /\ sc_out = <<>>
    /\ sc_out' = <<[op |-> "extract_numbers", val |-> extract_numbers(sc_text)]>>
    /\ UNCHANGED <<config, matcherVars, other, loaderVars, sc_desc, sc_text, sc_amount>>

InitScorer ==
    /\ threshold = FUZZY_THRESHOLD
    /\ amount_tolerance_percent \in TolerancePercents
    /\ exact_match_bonus \in Bonuses
    /\ MatcherInit
    /\ LoaderIdle
    /\ OtherIdle
    /\ sc_desc = <<>>
    /\ sc_text \in ScorerTexts
    /\ sc_amount \in ScorerAmounts
    /\ sc_out = <<>>

NextScorer ==
    \/ CheckNumericConsistency
    \/ ExtractNumbers

SpecScorer == InitScorer /\ [][NextScorer]_vars

(***************************************************************************)
(* calculate_final_score called directly on one pair of descriptions.      *)
(***************************************************************************)
CalculateFinalScore ==
    /\ sc_out = <<>>
    /\ sc_out' = <<[op |-> "calculate_final_score",
                    val |-> calculate_final_score(sc_desc, sc_amount, sc_text)]>>
    /\ UNCHANGED <<config, matcherVars, other, loaderVars, sc_desc, sc_text, sc_amount>>

InitFinal ==
    /\ threshold = FUZZY_THRESHOLD
    /\ amount_tolerance_percent \in TolerancePercents
    /\ exact_match_bonus \in Bonuses
    /\ MatcherInit
    /\ LoaderIdle
    /\ OtherIdle
    /\ sc_desc \in FinalDescs
    /\ sc_text \in ScorerTexts
    /\ sc_amount \in FinalAmounts
    /\ sc_out = <<>>

NextFinal ==
    \/ CheckNumericConsistency
    \/ CalculateFinalScore

SpecFinal == InitFinal /\ [][NextFinal]_vars

(***************************************************************************)
(* Two match_datasets calls, one each, interleaved row by row.             *)
(***************************************************************************)
InitShared ==
    /\ threshold = FUZZY_THRESHOLD
    /\ amount_tolerance_percent = AMOUNT_TOLERANCE_PERCENT
    /\ exact_match_bonus = EXACT_MATCH_BONUS
    /\ MatcherInit
    /\ LoaderIdle
    /\ other \in {[NoOther EXCEPT !.shared = b] : b \in BOOLEAN}
    /\ sc_desc = <<>>
    /\ sc_text = <<>>
    /\ sc_amount = 0
    /\ sc_out = <<>>

NextShared ==
    \/ \E src \in SourceTables, ref \in SharedReferences :
          pc = "new" /\ MatchDatasetsCall(src, ref)
    \/ ProcessRow
    \/ MatchDatasetsReturn
    \/ \E src \in SourceTables, ref \in SharedReferences : OtherCall(src, ref)
    \/ OtherProcessRow
    \/ OtherReturn
    \/ pc = "done" /\ other.pc = "done" /\ GetAuditLog

SpecShared == InitShared /\ [][NextShared]_vars

(***************************************************************************)
(* The loader called on one table.                                         *)
(***************************************************************************)
InitLoader ==
    /\ threshold = FUZZY_THRESHOLD
    /\ amount_tolerance_percent = AMOUNT_TOLERANCE_PERCENT
    /\ exact_match_bonus = EXACT_MATCH_BONUS
    /\ MatcherInit
    /\ OtherIdle
    /\ sc_desc = <<>>
    /\ sc_text = <<>>
    /\ sc_amount = 0
    /\ sc_out = <<>>
    /\ ld_raw \in {<<[table |-> "source", rows |-> t]>> : t \in RawSourceTables}
               \cup {<<[table |-> "reference", rows |-> t]>> :
                        t \in RawReferenceTables}
    /\ ld_out = <<>>

NextLoader ==
    \/ LoadSourceData
    \/ LoadReferenceData

SpecLoader == InitLoader /\ [][NextLoader]_vars

(***************************************************************************)
(* calculate_text_similarity called directly on one pair of descriptions.  *)
(***************************************************************************)
CalculateTextSimilarity ==
    /\ sc_out = <<>>
    /\ sc_out' = <<[op |-> "calculate_text_similarity",
                    val |-> calculate_text_similarity(sc_desc, sc_text)]>>
    /\ UNCHANGED <<config, matcherVars, other, loaderVars, sc_desc, sc_text, sc_amount>>

InitText ==
    /\ threshold = FUZZY_THRESHOLD
    /\ amount_tolerance_percent = AMOUNT_TOLERANCE_PERCENT
    /\ exact_match_bonus = EXACT_MATCH_BONUS
    /\ MatcherInit
    /\ LoaderIdle
    /\ OtherIdle
    /\ sc_desc \in WordTexts
    /\ sc_text \in WordTexts
    /\ sc_amount = 0
    /\ sc_out = <<>>

NextText == CalculateTextSimilarity

SpecText == InitText /\ [][NextText]_vars

(***************************************************************************)
(* Properties of match_datasets and get_audit_log.                         *)
(***************************************************************************)
\* C1: once match_datasets has returned, the result table and the audit log
\* each hold exactly len(source) rows, whatever the size of the reference
\* table; an empty source table gives an empty result table and audit log.
C1_RowCounts ==
    pc = "done" =>
        /\ Len(results) = Len(source_df)
        /\ Len(audit_records) = Len(source_df)
        /\ audit_log # <<>> => Len(audit_log[1]) = Len(source_df)

\* an empty source table against a non-empty reference table, on a Matcher
\* whose earlier run left audit rows, and the audit log read afterwards
C1_Witness ==
    /\ pc = "done"
    /\ source_df = <<>>
    /\ reference_df # <<>>
    /\ stale_rows > 0
    /\ results = <<>>
    /\ audit_log = << <<>> >>

\* C2: once match_datasets has returned, the result row and the audit row of
\* every index carry the same Matched_Code.
C2_CodesAgree ==
    pc = "done" =>
        /\ \A i \in 1..Len(results) :
              /\ i <= Len(audit_records)
              /\ results[i].Matched_Code = audit_records[i].Matched_Code
        /\ audit_log # <<>> =>
              \A i \in 1..Len(results) :
                  /\ i <= Len(audit_log[1])
                  /\ results[i].Matched_Code = audit_log[1][i].Matched_Code

\* a run with a matched row and an unmatched row, and the audit log read
C2_Witness ==
    /\ pc = "done"
    /\ audit_log # <<>>
    /\ \E i, j \in 1..Len(results) :
          /\ results[i].Matched_Code # "NO_MATCH"
          /\ results[j].Matched_Code = "NO_MATCH"

(***************************************************************************)
(* Properties of find_best_match, observed on the call the loop of         *)
(* match_datasets made last: its arguments are source_df[idx] and          *)
(* reference_df, its value is match_result[1].                             *)
(***************************************************************************)
\* the final score the Scorer gives a source row against a reference row
FinalScore(source_row, ref_row) ==
    calculate_final_score(source_row.Description, source_row.Amount,
                          ref_row.Description).final_score

\* some reference row scores at least the threshold
ReachesThreshold(source_row, ref) ==
    \E i \in 1..Len(ref) : RLe(RInt(threshold), FinalScore(source_row, ref[i]))

MatchedIff(mr, source_row, ref) ==
    /\ mr.matched <=> (ref # <<>> /\ ReachesThreshold(source_row, ref))
    /\ ~mr.matched => mr.code = "NO_MATCH" /\ mr.matched_description = <<>>

\* C3: find_best_match returns matched = true exactly when the reference
\* sequence is non-empty and its greatest final score is >= threshold; in
\* every other case it returns matched = false, code 'NO_MATCH' and an empty
\* matched_description.
C3_MatchedIffBestReachesThreshold ==
    match_result # <<>> =>
        MatchedIff(match_result[1], source_df[idx], reference_df)

\* row i of ref is the first row with the greatest final score, and mr
\* carries its code, its description and its score
FirstBest(mr, source_row, ref, i) ==
    /\ FinalScore(source_row, ref[i]) = mr.score
    /\ \A j \in 1..Len(ref) : RLe(FinalScore(source_row, ref[j]), mr.score)
    /\ \A j \in 1..(i - 1) : RLt(FinalScore(source_row, ref[j]), mr.score)
    /\ mr.code = ref[i].Code
    /\ mr.matched_description = ref[i].Description

\* C4: a matched result carries the code and the description of one and the
\* same reference row, the lowest-index row whose final score is the maximum
\* over all reference rows, and its score is that maximum.
C4_FirstBestWins ==
    (match_result # <<>> /\ match_result[1].matched) =>
        \E i \in 1..Len(reference_df) :
            FirstBest(match_result[1], source_df[idx], reference_df, i)

\* a matched result where two reference rows with different codes tie for
\* the greatest score
C4_Witness ==
    /\ match_result # <<>>
    /\ match_result[1].matched
    /\ \E i, j \in 1..Len(reference_df) :
          /\ i < j
          /\ reference_df[i].Code # reference_df[j].Code
          /\ FinalScore(source_df[idx], reference_df[i]) = match_result[1].score
          /\ FinalScore(source_df[idx], reference_df[j]) = match_result[1].score
          /\ match_result[1].code = reference_df[i].Code

\* C5: with an empty reference table every row of a non-empty source table
\* gets Matched_Code 'NO_MATCH', Match_Score 0 and Match_Type 'No Match',
\* for every threshold.
C5_EmptyReference ==
    (pc \in {"loop", "done"} /\ reference_df = <<>>) =>
        \A i \in 1..Len(results) :
            /\ results[i].Matched_Code = "NO_MATCH"
            /\ results[i].Match_Score = 0
            /\ results[i].Match_Type = "No Match"

\* a completed run of two source rows against the empty reference table, at
\* the threshold every score reaches
C5_Witness ==
    /\ pc = "done"
    /\ reference_df = <<>>
    /\ Len(results) >= 2
    /\ threshold = 0

\* the audit rows of a run, computed row by row from its arguments
ExpectedAudit(src, ref) ==
    [i \in 1..Len(src) |->
        audit_record(src[i],
                     find_best_match(src[i].Description, src[i].Amount, ref))]

\* C6: get_audit_log returns an empty table before the first match_datasets
\* call, and after any sequence of completed calls exactly the audit rows of
\* the most recent call.
C6_AuditOfLastRun ==
    audit_log # <<>> =>
        /\ pc \in {"new", "done"}
        /\ pc = "new" => audit_log[1] = <<>>
        /\ pc = "done" => audit_log[1] = ExpectedAudit(source_df, reference_df)

\* the audit log read after a run of fewer rows than the run before it
C6_Witness ==
    /\ pc = "done"
    /\ audit_log # <<>>
    /\ Len(source_df) > 0
    /\ stale_rows > Len(source_df)

\* C7: match_datasets preserves the input order: result row i and audit row
\* i carry the description and the amount of source row i.
C7_OrderPreserved ==
    pc = "done" =>
        /\ Len(results) = Len(source_df)
        /\ Len(audit_records) = Len(source_df)
        /\ \A i \in 1..Len(source_df) :
              /\ results[i].Description = source_df[i].Description
              /\ results[i].Amount = source_df[i].Amount
              /\ audit_records[i].Source_Description = source_df[i].Description
              /\ audit_records[i].Source_Amount = source_df[i].Amount

\* a completed run over two different source rows
C7_Witness ==
    /\ pc = "done"
    /\ Len(source_df) = 2
    /\ source_df[1] # source_df[2]
    /\ Len(results) = 2

(***************************************************************************)
(* Properties of check_numeric_consistency, observed on a direct call:     *)
(* its arguments are sc_amount and sc_text, its value is sc_out[1].val.    *)
(***************************************************************************)
Checked == sc_out # <<>> /\ sc_out[1].op = "check_numeric_consistency"

\* |source_amount - n| <= |source_amount| * amount_tolerance_percent / 100
InTolerance(source_amount, n) ==
    Abs(source_amount - n) <= Abs(source_amount * amount_tolerance_percent) \div 100

\* n is within tolerance of source_amount and differs from it by exactly
\* the tolerance
AtToleranceEdge(source_amount, n) ==
    100 * Abs(source_amount - n) = Abs(source_amount * amount_tolerance_percent)

\* the number at position i is the first one within tolerance
FirstInTolerance(source_amount, nums, i) ==
    /\ InTolerance(source_amount, nums[i])
    /\ \A j \in 1..(i - 1) : ~InTolerance(source_amount, nums[j])

ExactBonus(val) ==
    val.is_consistent /\ val.numeric_score = RInt(exact_match_bonus)

\* C8 as stated: if some number extracted from the description equals
\* source_amount, check_numeric_consistency returns is_consistent = true and
\* numeric_score = exact_match_bonus, whatever other numbers the description
\* contains before or after it.
C8_ExactAnywhere ==
    (Checked /\ \E i \in 1..Len(extract_numbers(sc_text)) :
                    extract_numbers(sc_text)[i] = sc_amount)
        => ExactBonus(sc_out[1].val)

\* C8 amended: if some number extracted from the description equals
\* source_amount and no number before it lies within tolerance of
\* source_amount, check_numeric_consistency returns is_consistent = true and
\* numeric_score = exact_match_bonus.
C8_ExactFirstInTolerance ==
    (Checked /\ \E i \in 1..Len(extract_numbers(sc_text)) :
                    /\ extract_numbers(sc_text)[i] = sc_amount
                    /\ FirstInTolerance(sc_amount, extract_numbers(sc_text), i))
        => ExactBonus(sc_out[1].val)

\* the exact number comes second, after a number out of tolerance
C8_Witness ==
    /\ Checked
    /\ Len(extract_numbers(sc_text)) >= 2
    /\ extract_numbers(sc_text)[2] = sc_amount
    /\ ~InTolerance(sc_amount, extract_numbers(sc_text)[1])
    /\ sc_out[1].val.numeric_score = RInt(exact_match_bonus)

\* the number the scan accepts is not equal to source_amount
AcceptsInexact(source_amount, nums) ==
    \E i \in 1..Len(nums) :
        /\ FirstInTolerance(source_amount, nums, i)
        /\ nums[i] # source_amount

\* the accepted number differs from source_amount by exactly the tolerance
AcceptsAtEdge(source_amount, nums) ==
    \E i \in 1..Len(nums) :
        /\ FirstInTolerance(source_amount, nums, i)
        /\ AtToleranceEdge(source_amount, nums[i])

\* C9 as stated: with exact_match_bonus > 0, an accepted number that is not
\* equal to source_amount but within tolerance gives is_consistent = true
\* and 0 < numeric_score < exact_match_bonus.
C9_StrictlyPartial ==
    (Checked /\ exact_match_bonus > 0
             /\ AcceptsInexact(sc_amount, extract_numbers(sc_text)))
        => /\ sc_out[1].val.is_consistent
           /\ RLt(RInt(0), sc_out[1].val.numeric_score)
           /\ RLt(sc_out[1].val.numeric_score, RInt(exact_match_bonus))

\* C9 amended: with exact_match_bonus > 0, an accepted number that is not
\* equal to source_amount but within tolerance gives is_consistent = true
\* and 0 <= numeric_score < exact_match_bonus, where numeric_score = 0
\* exactly when the number differs from source_amount by the whole tolerance.
C9_PartialBonus ==
    (Checked /\ exact_match_bonus > 0
             /\ AcceptsInexact(sc_amount, extract_numbers(sc_text)))
        => /\ sc_out[1].val.is_consistent
           /\ RLe(RInt(0), sc_out[1].val.numeric_score)
           /\ RLt(sc_out[1].val.numeric_score, RInt(exact_match_bonus))
           /\ sc_out[1].val.numeric_score = RInt(0)
                  <=> AcceptsAtEdge(sc_amount, extract_numbers(sc_text))

\* a number strictly inside the tolerance band, accepted with a bonus
\* strictly between 0 and exact_match_bonus
C9_Witness ==
    /\ Checked
    /\ exact_match_bonus > 0
    /\ AcceptsInexact(sc_amount, extract_numbers(sc_text))
    /\ ~AcceptsAtEdge(sc_amount, extract_numbers(sc_text))
    /\ RLt(RInt(0), sc_out[1].val.numeric_score)
    /\ RLt(sc_out[1].val.numeric_score, RInt(exact_match_bonus))

\* C10: check_numeric_consistency returns is_consistent = false exactly when
\* the description contains a number and no extracted number is within
\* tolerance of source_amount, and numeric_score is then -50 whatever
\* exact_match_bonus and amount_tolerance_percent are.
C10_Mismatch ==
    Checked =>
        /\ ~sc_out[1].val.is_consistent
              <=> /\ extract_numbers(sc_text) # <<>>
                  /\ \A i \in 1..Len(extract_numbers(sc_text)) :
                        ~InTolerance(sc_amount, extract_numbers(sc_text)[i])
        /\ ~sc_out[1].val.is_consistent
              => sc_out[1].val.numeric_score = RInt(-50)

\* a mismatch against two numbers under the non-default bonus and a
\* positive tolerance
C10_Witness ==
    /\ Checked
    /\ ~sc_out[1].val.is_consistent
    /\ Len(extract_numbers(sc_text)) >= 2
    /\ exact_match_bonus = -10
    /\ amount_tolerance_percent > 0
    /\ sc_amount # 0

(***************************************************************************)
(* Properties of calculate_final_score.                                    *)
(***************************************************************************)
NoDigit(text) == \A i \in 1..Len(text) : ~IsDigit(text[i])
Scored == sc_out # <<>> /\ sc_out[1].op = "calculate_final_score"

NeutralCheck(val) ==
    /\ val.is_consistent
    /\ val.numeric_score = RInt(0)
    /\ val.explanation.note = "No numbers in reference description"
NeutralFinal(val) ==
    /\ val.numeric_consistent
    /\ val.numeric_score = RInt(0)
    /\ val.final_score = val.text_score

\* C11: when the reference description holds no digit,
\* check_numeric_consistency returns (True, 0.0, note) whatever the amount and
\* the configuration, and calculate_final_score returns the text score as the
\* final score, with a numeric score of 0.
C11_NoNumbersNeutral ==
    NoDigit(sc_text) =>
        /\ Checked => NeutralCheck(sc_out[1].val)
        /\ Scored => NeutralFinal(sc_out[1].val)

\* a pair with a positive text score, a non-zero amount, no digit
C11_Witness ==
    /\ Scored
    /\ NoDigit(sc_text)
    /\ sc_amount # 0
    /\ RLt(RInt(0), sc_out[1].val.text_score)

\* the numeric score that the number n earns on its own when it is within
\* tolerance of source_amount
ScoreOf(source_amount, n) ==
    IF n = source_amount THEN RInt(exact_match_bonus)
    ELSE IF source_amount * amount_tolerance_percent = 0 THEN RInt(0)
    ELSE Rat(exact_match_bonus * (Abs(source_amount * amount_tolerance_percent)
                                    - 100 * Abs(source_amount - n)),
             Abs(source_amount * amount_tolerance_percent))

\* C12: when numbers extracted from the reference description are within
\* tolerance of source_amount, the numeric_score returned is the one earned
\* by the first of them in left-to-right order, whether or not a later one
\* is closer.
C12_FirstInToleranceScores ==
    Checked =>
        \A i \in 1..Len(extract_numbers(sc_text)) :
            FirstInTolerance(sc_amount, extract_numbers(sc_text), i)
                => sc_out[1].val.numeric_score
                       = ScoreOf(sc_amount, extract_numbers(sc_text)[i])

\* two numbers within tolerance, the second one closer and worth a
\* different score, and the score returned is the first one's
C12_Witness ==
    /\ Checked
    /\ Len(extract_numbers(sc_text)) >= 2
    /\ InTolerance(sc_amount, extract_numbers(sc_text)[1])
    /\ InTolerance(sc_amount, extract_numbers(sc_text)[2])
    /\ Abs(sc_amount - extract_numbers(sc_text)[2])
           < Abs(sc_amount - extract_numbers(sc_text)[1])
    /\ ScoreOf(sc_amount, extract_numbers(sc_text)[1])
           # ScoreOf(sc_amount, extract_numbers(sc_text)[2])
    /\ sc_out[1].val.numeric_score
           = ScoreOf(sc_amount, extract_numbers(sc_text)[1])

\* C13: calculate_final_score never returns a final_score above 100 for a
\* numerically consistent pair, nor one below 0 for an inconsistent pair.
C13_Clamped ==
    Scored =>
        /\ sc_out[1].val.numeric_consistent
              => RLe(sc_out[1].val.final_score, RInt(100))
        /\ ~sc_out[1].val.numeric_consistent
              => RLe(RInt(0), sc_out[1].val.final_score)

\* a consistent pair whose text score plus bonus passes 100, returned as 100
C13_Witness ==
    /\ Scored
    /\ sc_out[1].val.numeric_consistent
    /\ RLt(RInt(100), RAdd(sc_out[1].val.text_score,
                           sc_out[1].val.numeric_score))
    /\ sc_out[1].val.final_score = RInt(100)

NotBelowText(val) ==
    /\ RLe(val.text_score, val.final_score)
    /\ RLe(val.final_score, RInt(100))

\* C14 as stated: for a numerically consistent pair,
\* text_score <= final_score <= 100, whatever exact_match_bonus and
\* amount_tolerance_percent the Scorer was constructed with.
C14_NeverLowers ==
    (Scored /\ sc_out[1].val.numeric_consistent)
        => NotBelowText(sc_out[1].val)

\* C14 amended: for a numerically consistent pair scored by a Scorer
\* constructed with exact_match_bonus >= 0,
\* text_score <= final_score <= 100.
C14_NeverLowersNonNegativeBonus ==
    (Scored /\ sc_out[1].val.numeric_consistent /\ exact_match_bonus >= 0)
        => NotBelowText(sc_out[1].val)

\* a consistent pair that earns a positive numeric score and ends strictly
\* above its text score
C14_Witness ==
    /\ Scored
    /\ sc_out[1].val.numeric_consistent
    /\ exact_match_bonus >= 0
    /\ RLt(RInt(0), sc_out[1].val.numeric_score)
    /\ RLt(sc_out[1].val.text_score, sc_out[1].val.final_score)

TierOf(val, label) == val.match_type = label

\* C15: calculate_final_score labels the pair "High Confidence" iff
\* final_score >= 90, "Medium Confidence" iff 70 <= final_score < 90,
\* "Low Confidence" iff 50 <= final_score < 70, "Poor Match" iff
\* final_score < 50, and never "No Match".
C15_Tiers ==
    Scored =>
        /\ TierOf(sc_out[1].val, "High Confidence")
              <=> RLe(RInt(90), sc_out[1].val.final_score)
        /\ TierOf(sc_out[1].val, "Medium Confidence")
              <=> /\ RLe(RInt(70), sc_out[1].val.final_score)
                  /\ RLt(sc_out[1].val.final_score, RInt(90))
        /\ TierOf(sc_out[1].val, "Low Confidence")
              <=> /\ RLe(RInt(50), sc_out[1].val.final_score)
                  /\ RLt(sc_out[1].val.final_score, RInt(70))
        /\ TierOf(sc_out[1].val, "Poor Match")
              <=> RLt(sc_out[1].val.final_score, RInt(50))
        /\ ~TierOf(sc_out[1].val, "No Match")

\* a final score of exactly 50, the closed lower end of "Low Confidence"
C15_Witness ==
    /\ Scored
    /\ sc_out[1].val.final_score = RInt(50)
    /\ TierOf(sc_out[1].val, "Low Confidence")

(***************************************************************************)
(* Properties of find_best_match.                                          *)
(***************************************************************************)
ScorerTiers ==
    {"High Confidence", "Medium Confidence", "Low Confidence", "Poor Match"}

\* details is what the Scorer computes for row i of ref, and no row of ref
\* has a greater final score
DetailsOfBestRow(details, source_row, ref, i) ==
    /\ details = calculate_final_score(source_row.Description,
                                       source_row.Amount, ref[i].Description)
    /\ \A j \in 1..Len(ref) :
          RLe(FinalScore(source_row, ref[j]), FinalScore(source_row, ref[i]))

\* C16: with a non-empty reference sequence the details find_best_match
\* returns, matched or not, are the Scorer's details of a best-scoring
\* reference row, with a match_type among the four Scorer tiers; the
\* synthetic details with match_type "No Match" are returned only when the
\* reference sequence is empty.
C16_DetailsOfBestRow ==
    match_result # <<>> =>
        /\ reference_df # <<>> =>
              /\ \E i \in 1..Len(reference_df) :
                    DetailsOfBestRow(match_result[1].details, source_df[idx],
                                     reference_df, i)
              /\ match_result[1].details.match_type \in ScorerTiers
        /\ match_result[1].details.match_type = "No Match"
              => reference_df = <<>>

(***************************************************************************)
(* Properties of calculate_text_similarity.                                *)
(***************************************************************************)
Compared == sc_out # <<>> /\ sc_out[1].op = "calculate_text_similarity"

\* the rearrangements of the sequence q
Rearrangements(q) ==
    {[i \in 1..Len(q) |-> q[p[i]]] :
        p \in {f \in [1..Len(q) -> 1..Len(q)] :
                  \A i, j \in 1..Len(q) : f[i] = f[j] => i = j}}

\* the texts made of the words of text in another order, one space apart
Reworded(text) == {join(w) : w \in Rearrangements(split(text))}

\* C17: the score calculate_text_similarity returns is unchanged when the
\* whitespace-separated words of the source description, or those of the
\* reference description, are put in another order.
C17_WordOrderInsensitive ==
    Compared =>
        /\ \A s \in Reworded(sc_desc) :
              calculate_text_similarity(s, sc_text) = sc_out[1].val
        /\ \A r \in Reworded(sc_text) :
              calculate_text_similarity(sc_desc, r) = sc_out[1].val

\* two descriptions made of the same two different words in opposite
\* orders, scored 100
C17_Witness ==
    /\ Compared
    /\ Len(split(sc_desc)) = 2
    /\ split(sc_desc)[1] # split(sc_desc)[2]
    /\ split(sc_text) = <<split(sc_desc)[2], split(sc_desc)[1]>>
    /\ sc_out[1].val = RInt(100)

(***************************************************************************)
(* Properties of extract_numbers.                                          *)
(***************************************************************************)
Extracted == sc_out # <<>> /\ sc_out[1].op = "extract_numbers"

\* a run of digits starts at position i of text
RunStart(text, i) == IsDigit(text[i]) /\ (i = 1 \/ ~IsDigit(text[i - 1]))

\* the last position of the run of digits that holds position i
RunLast(text, i) ==
    CHOOSE e \in i..Len(text) :
        /\ \A k \in i..e : IsDigit(text[k])
        /\ e = Len(text) \/ ~IsDigit(text[e + 1])

\* the first position of the run of digits that holds position i
RunFirst(text, i) ==
    CHOOSE b \in 1..i :
        /\ \A k \in b..i : IsDigit(text[k])
        /\ RunStart(text, b)

\* the run that starts at i is the decimal part of the literal before it:
\* it follows a point that follows a run which is an integer part
RECURSIVE IsDecimalPart(_, _)
IsDecimalPart(text, i) ==
    /\ i >= 3
    /\ text[i - 1] = "."
    /\ IsDigit(text[i - 2])
    /\ ~IsDecimalPart(text, RunFirst(text, i - 2))

\* a numeric literal has its first digit at position i
LiteralAt(text, i) == RunStart(text, i) /\ ~IsDecimalPart(text, i)

\* the digits text[i..e] read as a decimal integer
RECURSIVE DigitsValue(_, _, _)
DigitsValue(text, i, e) ==
    IF e < i THEN 0
    ELSE 10 * DigitsValue(text, i, e - 1) + DigitVal(text[e])

\* the decimal part after the integer part that ends at e, in units of
\* 1/Scale: the digits that follow a point right after e, if any
DecimalValue(text, e) ==
    IF e + 2 <= Len(text) /\ text[e + 1] = "." /\ IsDigit(text[e + 2])
    THEN (DigitsValue(text, e + 2, RunLast(text, e + 2)) * Scale)
             \div Pow10(RunLast(text, e + 2) - e - 1)
    ELSE 0

\* the value of the literal whose first digit is at i, in units of 1/Scale
LiteralValue(text, i) ==
    (IF i > 1 /\ text[i - 1] = "-" THEN -1 ELSE 1)
        * (DigitsValue(text, i, RunLast(text, i)) * Scale
           + DecimalValue(text, RunLast(text, i)))

\* the values of the literals of text with their first digit at i or later,
\* in the order of their first digits
RECURSIVE LiteralsFrom(_, _)
LiteralsFrom(text, i) ==
    IF i > Len(text) THEN <<>>
    ELSE IF LiteralAt(text, i)
    THEN <<LiteralValue(text, i)>> \o LiteralsFrom(text, i + 1)
    ELSE LiteralsFrom(text, i + 1)

\* C19: extract_numbers returns the numeric literals of the text in the
\* order of their first digits, one for each run of digits together with
\* its optional decimal part; it returns the empty sequence for a text
\* without a digit, and a run of digits counts whatever precedes it, a
\* letter included.
C19_LiteralsInOrder ==
    Extracted =>
        /\ sc_out[1].val = LiteralsFrom(sc_text, 1)
        /\ NoDigit(sc_text) => sc_out[1].val = <<>>
        /\ \A i \in 2..Len(sc_text) :
              (RunStart(sc_text, i) /\ sc_text[i - 1] = "a")
                  => \E k \in 1..Len(sc_out[1].val) :
                        sc_out[1].val[k] = LiteralValue(sc_text, i)

\* the text starts with "a1" and holds a second literal 2: the numbers
\* returned are 1 then 2
C19_Witness ==
    /\ Extracted
    /\ Len(sc_text) >= 2
    /\ sc_text[1] = "a"
    /\ sc_text[2] = "1"
    /\ sc_out[1].val = <<Scale, 2 * Scale>>

(***************************************************************************)
(* The threshold and the choice of find_best_match.                        *)
(***************************************************************************)
\* what find_best_match returns for the row just processed in a Matcher
\* constructed with threshold t
UnderThreshold(t) ==
    find_best_match_at(t, source_df[idx].Description, source_df[idx].Amount,
                       reference_df)

\* lo was returned under the lower threshold and hi under the higher one
OnlyClassifies(lo, hi) ==
    /\ lo.score = hi.score
    /\ hi.matched =>
          /\ lo.matched
          /\ lo.code = hi.code
          /\ lo.matched_description = hi.matched_description

\* C20: for the same source row and reference sequence and thresholds
\* t1 <= t2, find_best_match returns the same score under both, and a row
\* matched under t2 is matched under t1 with the same code and the same
\* matched description.
C20_ThresholdOnlyClassifies ==
    match_result # <<>> =>
        \A t \in Thresholds :
            /\ threshold <= t => OnlyClassifies(match_result[1], UnderThreshold(t))
            /\ t <= threshold => OnlyClassifies(UnderThreshold(t), match_result[1])

\* a row matched under this Matcher's threshold that a higher threshold
\* turns into NO_MATCH with the same score
C20_Witness ==
    /\ match_result # <<>>
    /\ match_result[1].matched
    /\ \E t \in Thresholds :
          /\ threshold < t
          /\ ~UnderThreshold(t).matched
          /\ UnderThreshold(t).score = match_result[1].score
          /\ RLt(RInt(0), match_result[1].score)

(***************************************************************************)
(* Properties of the loader.                                               *)
(***************************************************************************)
LoadedSource == ld_out # <<>> /\ ld_raw[1].table = "source"
LoadedReference == ld_out # <<>> /\ ld_raw[1].table = "reference"

\* the text of a cell without its leading and trailing spaces: its longest
\* stretch that neither starts nor ends with a space
Trimmed(cell) ==
    IF cell.kind # "text" \/ \A i \in 1..Len(cell.text) : IsSpace(cell.text[i])
    THEN <<>>
    ELSE SubSeq(cell.text,
                CHOOSE i \in 1..Len(cell.text) :
                    /\ ~IsSpace(cell.text[i])
                    /\ \A j \in 1..(i - 1) : IsSpace(cell.text[j]),
                CHOOSE i \in 1..Len(cell.text) :
                    /\ ~IsSpace(cell.text[i])
                    /\ \A j \in (i + 1)..Len(cell.text) : IsSpace(cell.text[j]))

\* the amount of a cell: its number, the number its text spells, else 0
AmountOrZero(cell) ==
    IF cell.kind = "number" THEN cell.num
    ELSE IF cell.kind = "text" /\ ParsesAsNumber(cell.text)
    THEN LiteralValue(cell.text, IF cell.text[1] = "-" THEN 2 ELSE 1)
    ELSE 0

\* out holds one row for each position of keep, in increasing order of the
\* positions, and Row(i) is the row for position i
SelectedInOrder(out, keep, Row(_)) ==
    /\ Len(out) = Cardinality(keep)
    /\ \A i \in keep : out[Cardinality({j \in keep : j <= i})] = Row(i)

SourceKept(raw) == {i \in 1..Len(raw) : Trimmed(raw[i].Description) # <<>>}
SourceRowOf(raw, i) ==
    [Description |-> Trimmed(raw[i].Description),
     Amount |-> AmountOrZero(raw[i].Amount)]
ReferenceKept(raw) ==
    {i \in 1..Len(raw) : /\ Trimmed(raw[i].Description) # <<>>
                         /\ Trimmed(raw[i].Code) # <<>>}
ReferenceRowOf(raw, i) ==
    [Description |-> Trimmed(raw[i].Description),
     Code |-> Trimmed(raw[i].Code)]

ExpectedSourceRow(i) == SourceRowOf(ld_raw[1].rows, i)
ExpectedReferenceRow(i) == ReferenceRowOf(ld_raw[1].rows, i)

\* C21: load_source_data returns exactly the rows whose trimmed description
\* is not empty, in their order, each with its description trimmed and its
\* amount, 0 when the amount is missing or not a number;
\* load_reference_data returns exactly the rows whose trimmed description
\* and trimmed code are both not empty, in their order, trimmed.
C21_LoaderPostconditions ==
    /\ LoadedSource =>
          SelectedInOrder(ld_out[1], SourceKept(ld_raw[1].rows),
                          ExpectedSourceRow)
    /\ LoadedReference =>
          SelectedInOrder(ld_out[1], ReferenceKept(ld_raw[1].rows),
                          ExpectedReferenceRow)

\* a blank description dropped ahead of a row that is kept with a trimmed
\* description and an amount of 0 for a cell that is not a number
C21_Witness ==
    /\ LoadedSource
    /\ Len(ld_raw[1].rows) = 2
    /\ ld_raw[1].rows[1].Description = TextCell(<<" ">>)
    /\ ld_raw[1].rows[2].Description = TextCell(<<" ", "a", " ">>)
    /\ ld_raw[1].rows[2].Amount = TextCell(<<"a">>)
    /\ ld_out[1] = <<[Description |-> <<"a">>, Amount |-> 0]>>

(***************************************************************************)
(* The scoring calls of match_datasets.                                    *)
(***************************************************************************)
\* the pairs <<source row, reference row>> for the first n source rows, the
\* source rows in order and the reference rows in order within each
PairsInOrder(n, m) == [p \in 1..(n * m) |-> <<((p - 1) \div m) + 1,
                                              ((p - 1) % m) + 1>>]

\* a call in its loop has rows left to process (idx < len) or has none and
\* returns (idx = len): it is never past the end of the table
LoopNotStuck == pc = "loop" => idx <= Len(source_df)

\* a step of a call in its loop moves on to the next source row, or returns
\* once all rows are processed
LoopAdvances ==
    pc = "loop" =>
        \/ pc' = "loop" /\ idx' = idx + 1 /\ source_df' = source_df
        \/ pc' = "done" /\ idx = Len(source_df)

\* C22: every match_datasets call terminates (each step of its loop moves to
\* the next row of the finite source table and it returns after the last
\* row), and it calls calculate_final_score exactly
\* once for each pair of a source row and a reference row, the source rows
\* in input order and the reference rows in input order within each source
\* row, whatever scores were seen.
C22_ScoresEveryPairOnce ==
    /\ []LoopNotStuck
    /\ [][LoopAdvances]_vars
    /\ [](pc \in {"loop", "done"}
            => score_calls = PairsInOrder(idx, Len(reference_df)))

\* a finished call on two source rows and two reference rows, the first
\* pair scoring 100
C22_Witness ==
    /\ pc = "done"
    /\ Len(source_df) = 2
    /\ Len(reference_df) = 2
    /\ FinalScore(source_df[1], reference_df[1]) = RInt(100)
    /\ score_calls = <<<<1, 1>>, <<1, 2>>, <<2, 1>>, <<2, 2>>>>

(***************************************************************************)
(* check_numeric_consistency at a tolerance of 0.                          *)
(***************************************************************************)
ZeroTolerance == sc_amount * amount_tolerance_percent = 0

HasEqual(source_amount, nums) == \E i \in 1..Len(nums) : nums[i] = source_amount

ExactResult(val) ==
    /\ val.is_consistent
    /\ val.numeric_score = RInt(exact_match_bonus)
    /\ val.explanation.note = "Exact numeric match"

MismatchResult(val) ==
    /\ ~val.is_consistent
    /\ val.numeric_score = RInt(-50)
    /\ val.explanation.note = "Numeric mismatch"

\* C23: when the tolerance is 0 (source_amount is 0 or
\* amount_tolerance_percent is 0) check_numeric_consistency returns the
\* exact-match result (True, exact_match_bonus) if some number of the
\* description equals source_amount, the mismatch result (False, -50) if the
\* description has numbers and none equals source_amount, and never a
\* within-tolerance result; no division by the zero tolerance takes place.
C23_ZeroTolerance ==
    (Checked /\ ZeroTolerance) =>
        /\ HasEqual(sc_amount, extract_numbers(sc_text))
              => ExactResult(sc_out[1].val)
        /\ (extract_numbers(sc_text) # <<>>
              /\ ~HasEqual(sc_amount, extract_numbers(sc_text)))
              => MismatchResult(sc_out[1].val)
        /\ sc_out[1].val.explanation.note # "Numeric match within tolerance"

\* zero tolerance from a zero percentage: the exact number is found behind
\* a different one
C23_Witness ==
    /\ Checked
    /\ ZeroTolerance
    /\ sc_amount # 0
    /\ Len(extract_numbers(sc_text)) >= 2
    /\ extract_numbers(sc_text)[1] # sc_amount
    /\ extract_numbers(sc_text)[2] = sc_amount
    /\ ExactResult(sc_out[1].val)

(***************************************************************************)
(* Independence of the rows of one run.                                    *)
(***************************************************************************)
\* the result row and the audit row of one source row against ref, computed
\* from that row alone
ResultRowOf(source_row, ref) ==
    result_record(source_row,
                  find_best_match(source_row.Description, source_row.Amount,
                                  ref))
AuditRowOf(source_row, ref) ==
    audit_record(source_row,
                 find_best_match(source_row.Description, source_row.Amount,
                                 ref))

\* C24: the result row and the audit row of source row i are a function of
\* that row, the reference sequence and the configuration alone, whatever
\* the other source rows and the earlier runs were: equal source rows get
\* equal rows at any positions, so the tables of a run are the per-row
\* results assembled by source index.
C24_RowsIndependent ==
    pc \in {"loop", "done"} =>
        /\ Len(results) = idx /\ Len(audit_records) = idx
        /\ \A i \in 1..idx :
              /\ results[i] = ResultRowOf(source_df[i], reference_df)
              /\ audit_records[i] = AuditRowOf(source_df[i], reference_df)
        /\ \A i, j \in 1..idx :
              source_df[i] = source_df[j]
                  => /\ results[i] = results[j]
                     /\ audit_records[i] = audit_records[j]

\* a second run on the same Matcher, a matched row followed by a different
\* row that is not matched
C24_Witness ==
    /\ pc = "done"
    /\ stale_rows > 0
    /\ Len(source_df) = 2
    /\ source_df[1] # source_df[2]
    /\ results[1].Matched_Code # "NO_MATCH"
    /\ results[2].Matched_Code = "NO_MATCH"

(***************************************************************************)
(* Two interleaved calls and the audit sequence.                           *)
(***************************************************************************)
BothReturned == pc = "done" /\ other.pc = "done"

\* the audit the first call alone, and the second call alone, would leave
AuditOfFirst == ExpectedAudit(source_df, reference_df)
AuditOfSecond == ExpectedAudit(other.source_df, other.reference_df)

\* log is the audit of the run on src that returned table: as long, and row
\* for row the audit of the source row
Aligned(log, table, src, ref) ==
    /\ Len(log) = Len(src)
    /\ Len(table) = Len(src)
    /\ log = ExpectedAudit(src, ref)

\* C25: when each of two interleaved match_datasets calls runs on a Matcher
\* of its own, then in every interleaving the audit sequence of each Matcher
\* is, once its call has returned, as long as the call's result table and
\* source table and row for row the audit of that call.  (On one shared
\* Matcher this fails: see C25_Witness.)
C25_OwnMatcherPerCallIsSafe ==
    ~other.shared =>
        /\ pc = "done" =>
              Aligned(audit_records, results, source_df, reference_df)
        /\ other.pc = "done" =>
              Aligned(other.audit_records, other.results, other.source_df,
                      other.reference_df)
        /\ audit_log # <<>> => audit_log[1] = AuditOfFirst

\* two calls interleaved on one Matcher have both returned, and what
\* get_audit_log returns is the audit of neither: it is not as long as
\* either source table, or it holds rows of both runs
C25_Witness ==
    /\ other.shared
    /\ BothReturned
    /\ audit_log # <<>>
    /\ audit_log[1] # AuditOfFirst
    /\ audit_log[1] # AuditOfSecond
    /\ Len(source_df) = 2
    /\ Len(other.source_df) = 2
    /\ Len(audit_log[1]) = 3

(***************************************************************************)
(* The score and the tier reported in the two tables.                      *)
(***************************************************************************)
\* C26: every MatchResult of find_best_match has score equal to
\* details.final_score, for matched rows, unmatched rows and the synthetic
\* details alike; so in the tables of a run Match_Score equals Final_Score
\* and the two Match_Type columns agree, at every index.
C26_ScoreAndTierAgree ==
    /\ match_result # <<>>
          => match_result[1].score = match_result[1].details.final_score
    /\ pc \in {"loop", "done"} =>
          /\ Len(results) = Len(audit_records)
          /\ \A i \in 1..Len(results) :
                /\ results[i].Match_Score = audit_records[i].Final_Score
                /\ results[i].Match_Type = audit_records[i].Match_Type

\* a run that returned an unmatched row with the Scorer's details of its
\* best candidate and a row with the synthetic details
C26_Witness ==
    /\ pc = "done"
    /\ \E i, j \in 1..Len(results) :
          /\ results[i].Matched_Code = "NO_MATCH"
          /\ results[i].Match_Score > 0
          /\ results[i].Match_Score = audit_records[i].Final_Score
          /\ results[j].Match_Type = "No Match"
          /\ audit_records[j].Match_Type = "No Match"

(***************************************************************************)
(* Numerically inconsistent pairs.                                         *)
(***************************************************************************)
\* the details the Scorer computes for source row i against reference row j
PairDetails(i, j) ==
    calculate_final_score(source_df[i].Description, source_df[i].Amount,
                          reference_df[j].Description)

\* an inconsistent pair scores max(0, text_score - 50): at most 50, above 0
\* iff text_score > 50, and in neither of the two upper tiers
CappedAtFifty(details) ==
    ~details.numeric_consistent =>
        /\ details.final_score
              = RMax(RInt(0), RAdd(details.text_score, RInt(-50)))
        /\ RLe(details.final_score, RInt(50))
        /\ RLt(RInt(0), details.final_score)
              <=> RLt(RInt(50), details.text_score)
        /\ details.match_type \notin {"High Confidence", "Medium Confidence"}

\* C27: a numerically inconsistent pair scores max(0, text_score - 50),
\* never above 50, above 0 iff text_score > 50, and never in the tiers
\* "High Confidence" or "Medium Confidence"; so under a threshold above 50
\* every matched row of match_datasets has Numeric_Match = true in the
\* audit log.
C27_InconsistentAtMostFifty ==
    pc \in {"loop", "done"} =>
        /\ \A i \in 1..Len(source_df), j \in 1..Len(reference_df) :
              CappedAtFifty(PairDetails(i, j))
        /\ match_result # <<>> => CappedAtFifty(match_result[1].details)
        /\ threshold > 50 =>
              \A i \in 1..Len(audit_records) :
                  audit_records[i].Matched_Code # "NO_MATCH"
                      => audit_records[i].Numeric_Match

\* under a threshold above 50 a row is matched although one of its
\* candidates is inconsistent with a positive score
C27_Witness ==
    /\ pc = "done"
    /\ threshold > 50
    /\ \E i \in 1..Len(source_df), j \in 1..Len(reference_df) :
          /\ audit_records[i].Matched_Code # "NO_MATCH"
          /\ audit_records[i].Numeric_Match
          /\ ~PairDetails(i, j).numeric_consistent
          /\ RLt(RInt(0), PairDetails(i, j).final_score)

(***************************************************************************)
(* The sign of an extracted number.                                        *)
(***************************************************************************)
\* the positions of the first digits of the literals of text, from i on
RECURSIVE LiteralPositions(_, _)
LiteralPositions(text, i) ==
    IF i > Len(text) THEN <<>>
    ELSE IF LiteralAt(text, i)
    THEN <<i>> \o LiteralPositions(text, i + 1)
    ELSE LiteralPositions(text, i + 1)

\* a minus at position i of text is immediately followed by a digit
SignAt(text, i) ==
    text[i] = "-" /\ i < Len(text) /\ IsDigit(text[i + 1])

\* text with every minus that no digit follows replaced by a space
WithoutLoneMinus(text) ==
    [i \in 1..Len(text) |->
        IF text[i] = "-" /\ ~SignAt(text, i) THEN " " ELSE text[i]]

\* m is accepted by float(): an optional minus, one digit or more, then at
\* most one point among further digits
FloatLiteral(m) ==
    /\ m # <<>>
    /\ m # <<"-">>
    /\ IsDigit((IF m[1] = "-" THEN Tail(m) ELSE m)[1])
    /\ \A i \in 2..Len(m) : IsDigit(m[i]) \/ m[i] = "."
    /\ Cardinality({i \in 1..Len(m) : m[i] = "."}) <= 1

\* C28: extract_numbers makes a number negative exactly when a minus
\* immediately precedes its first digit, whatever precedes the minus; a
\* minus that no digit follows contributes no number; and extract_numbers
\* is total, every match of the pattern being a literal float() accepts.
C28_SignFollowsMinus ==
    Extracted =>
        /\ Len(sc_out[1].val) = Len(LiteralPositions(sc_text, 1))
        /\ \A k \in 1..Len(sc_out[1].val) :
              sc_out[1].val[k] < 0
                  <=> /\ LiteralPositions(sc_text, 1)[k] > 1
                      /\ SignAt(sc_text, LiteralPositions(sc_text, 1)[k] - 1)
        /\ Cardinality({k \in 1..Len(sc_out[1].val) : sc_out[1].val[k] < 0})
              = Cardinality({i \in 1..Len(sc_text) : SignAt(sc_text, i)})
        /\ sc_out[1].val = extract_numbers(WithoutLoneMinus(sc_text))
        /\ \A k \in 1..Len(findall(sc_text, 1)) :
              FloatLiteral(findall(sc_text, 1)[k])

\* "1-2-": the first minus follows a digit and makes 2 negative, the last
\* one is followed by nothing
C28_Witness ==
    /\ Extracted
    /\ sc_text = <<"1", "-", "2", "-">>
    /\ sc_out[1].val = <<Scale, -2 * Scale>>

(***************************************************************************)
(* Runs whose best scores fall next to the threshold.                      *)
(***************************************************************************)
RoundingThresholds == {-10, 0, FUZZY_THRESHOLD}

\* "100ab" against "1000.01" has text score 50; 1000.00 against 1000.01 is
\* within 5% and earns 20 * (1 - 0.01 / 50) = 19.996
RoundingSourceRows ==
    { [Description |-> <<"1", "0", "0", "a", "b">>, Amount |-> 1000 * Scale],
      [Description |-> <<"1", "0", "0", "0", ".", "0", "1">>,
       Amount |-> 1000 * Scale + Scale \div 100],
      [Description |-> <<"c", "d">>, Amount |-> 0] }

RoundingReferenceRows ==
    { [Description |-> <<"1", "0", "0", "0", ".", "0", "1">>, Code |-> "A1"],
      [Description |-> <<"a", "b">>, Code |-> "B"] }

RoundingSourceTables == SeqsUpTo(RoundingSourceRows, MaxSource)
RoundingReferenceTables == SeqsUpTo(RoundingReferenceRows, MaxRef)

InitRounding ==
    /\ threshold \in RoundingThresholds
    /\ amount_tolerance_percent = AMOUNT_TOLERANCE_PERCENT
    /\ exact_match_bonus = EXACT_MATCH_BONUS
    /\ MatcherInit
    /\ LoaderIdle
    /\ OtherIdle
    /\ sc_desc = <<>>
    /\ sc_text = <<>>
    /\ sc_amount = 0
    /\ sc_out = <<>>

NextRounding ==
    \/ \E src \in RoundingSourceTables, ref \in RoundingReferenceTables :
          MatchDatasetsCall(src, ref)
    \/ ProcessRow
    \/ MatchDatasetsReturn
    \/ GetAuditLog

SpecRounding == InitRounding /\ [][NextRounding]_vars

\* result row i is matched
MatchedRow(i) == results[i].Matched_Code # "NO_MATCH"

\* the unrounded best score of the scan for source row i
BestScoreOf(i) ==
    BestScan(reference_df,
             ScoreAll(source_df[i].Description, source_df[i].Amount,
                      reference_df),
             1, NoBest).best_score

\* C29, as stated: with a non-empty reference table a result row is matched
\* if and only if its Match_Score, the best score rounded to 2 decimal
\* places, is at least the threshold.
C29_ReportedScoreClassifies ==
    (pc \in {"loop", "done"} /\ reference_df # <<>>) =>
        \A i \in 1..Len(results) :
            MatchedRow(i) <=> results[i].Match_Score >= 100 * threshold

\* C29, amended: a result row is matched if and only if its unrounded best
\* score is positive and at least the threshold; so a matched row has
\* Match_Score >= threshold, and a row whose Match_Score is positive and
\* above the threshold is matched.
C29_UnroundedScoreClassifies ==
    (pc \in {"loop", "done"} /\ reference_df # <<>>) =>
        \A i \in 1..Len(results) :
            /\ MatchedRow(i) <=> /\ RLe(RInt(threshold), BestScoreOf(i))
                                 /\ RLt(RInt(0), BestScoreOf(i))
            /\ results[i].Match_Score = round2(BestScoreOf(i))
            /\ MatchedRow(i) => results[i].Match_Score >= 100 * threshold
            /\ (/\ results[i].Match_Score > 100 * threshold
                /\ results[i].Match_Score > 0) => MatchedRow(i)

\* an unmatched row is reported with a Match_Score equal to the positive
\* threshold: its best score was rounded up to it
C29_Witness ==
    /\ pc = "done"
    /\ reference_df # <<>>
    /\ threshold > 0
    /\ \E i \in 1..Len(results) :
          /\ ~MatchedRow(i)
          /\ results[i].Match_Score = 100 * threshold
          /\ RLt(BestScoreOf(i), RInt(threshold))

(***************************************************************************)
(* Runs over source tables that break the loader's contract.               *)
(***************************************************************************)
FailSourceRows ==
    { [Description |-> <<"a", "b", " ", "1", "5">>, Amount |-> 15 * Scale],
      [Description |-> <<"a", "b", " ", "1", "5">>, Amount |-> TextAmount] }

FailReferenceRows ==
    { [Description |-> <<"a", "b", " ", "1", "5">>, Code |-> "A1"],
      [Description |-> <<"a", "b">>, Code |-> "B"] }

FailSourceTables == SeqsUpTo(FailSourceRows, MaxSource)
FailReferenceTables == SeqsUpTo(FailReferenceRows, MaxRef)

NextFail ==
    \/ \E src \in FailSourceTables, ref \in FailReferenceTables :
          MatchDatasetsCall(src, ref)
    \/ ProcessRow
    \/ ProcessRowRaises
    \/ MatchDatasetsReturn
    \/ GetAuditLog

SpecFail == Init /\ [][NextFail]_vars

\* the audit rows of the first n source rows of the current run
AuditOfRows(n) ==
    [i \in 1..n |->
        audit_record(source_df[i],
                     find_best_match(source_df[i].Description,
                                     source_df[i].Amount, reference_df))]

\* C30: when scoring source row k raises inside match_datasets, the call
\* ends there without a result table, no later row is processed, and the
\* audit sequence is exactly the audit rows of the rows before k of the
\* failed run; the audit of the run before is not restored.
C30_FailureLeavesPartialAudit ==
    /\ pc \in {"loop", "done"} =>
          \A i \in 1..idx : ~Raises(source_df[i], reference_df)
    /\ pc = "raised" =>
          /\ idx < Len(source_df)
          /\ Raises(source_df[idx + 1], reference_df)
          /\ \A i \in 1..idx : ~Raises(source_df[i], reference_df)
          /\ results = <<>>
          /\ audit_records = AuditOfRows(idx)
          /\ audit_log # <<>> => audit_log[1] = AuditOfRows(idx)

\* the second row of a run raised after a run that left two audit rows:
\* the audit read afterwards is the one row of the failed run
C30_Witness ==
    /\ pc = "raised"
    /\ stale_rows = 2
    /\ idx = 1
    /\ audit_log = <<AuditOfRows(1)>>

=============================================================================
